---- MODULE Spec2Model ----
(***************************************************************************)
(* A model of mt-redis's string commands (src/t_string.c) and of its       *)
(* worker-thread descriptor (src/q_thread.c).                              *)
(*                                                                         *)
(* Three groups of state:                                                  *)
(*   - the keyspace as the writer thread's command handlers see it, one    *)
(*     action per handler (specification Spec; SpecIncr runs the           *)
(*     INCR/DECR/INCRBY/DECRBY handlers over the whole scaled signed       *)
(*     range, SpecRange runs GETRANGE over every pair of indexes);         *)
(*   - the heap, the RCU read sections and the writer's program counter    *)
(*     inside APPEND and SETRANGE, statement by statement, interleaved     *)
(*     with reader threads (specifications SpecRCU and SpecRCUFair).       *)
(*   - one q_thread descriptor, the calls its owner makes on it and the    *)
(*     threads launched from it, statement by statement (specification     *)
(*     SpecThread).                                                        *)
(*                                                                         *)
(* Machine integers are scaled: long and long long are LLBits wide instead *)
(* of 64, size_t is LLBits wide and unsigned, and the 512 MiB string limit *)
(* is StringLimit bytes.  The orders 0 < StringLimit << LLONG_MAX of the   *)
(* program are kept.                                                       *)
(***************************************************************************)
EXTENDS Integers, Sequences, FiniteSets, TLC

(***************************************************************************)
(* Bounds and scaled program constants                                     *)
(***************************************************************************)

\* width in bits of long / long long / size_t (64 in the program)
LLBits == 5

\* 512 * 1024 * 1024 in checkStringLength, scaled
StringLimit == 3

\* OBJ_SHARED_INTEGERS (the pool of shared small integers), scaled
OBJ_SHARED_INTEGERS == 2

\* milliseconds *= 1000 in setGenericCommand, scaled
MsPerSec == 2

\* OBJ_ENCODING_EMBSTR_SIZE_LIMIT: strings up to this length are created
\* with the embedded encoding, longer ones raw
EmbstrLimit == 1

\* the number of commands the writer thread is given
MaxCmds == 2

RECURSIVE Pow2(_)
Pow2(n) == IF n = 0 THEN 1 ELSE 2 * Pow2(n - 1)

LLONG_MAX == Pow2(LLBits - 1) - 1
LLONG_MIN == -Pow2(LLBits - 1)
LONG_MAX == LLONG_MAX
LONG_MIN == LLONG_MIN
LLRange == LLONG_MIN..LLONG_MAX

\* conversion of a mathematical integer to a signed LLBits-wide integer
\* (what an unsigned-to-signed conversion or a wrapping operation yields)
WrapLL(x) ==
    LET m == x % Pow2(LLBits)
    IN IF m > LLONG_MAX THEN m - Pow2(LLBits) ELSE m

Max(a, b) == IF a >= b THEN a ELSE b
Min(a, b) == IF a <= b THEN a ELSE b

(***************************************************************************)
(* Byte strings: sequences of one-character strings; NUL is the zero byte. *)
(***************************************************************************)

NUL == "NUL"
Digits == <<"0", "1", "2", "3", "4", "5", "6", "7", "8", "9">>

DigitVal(ch) == CHOOSE d \in 0..9 : Digits[d + 1] = ch
IsDigit(ch) == \E d \in 0..9 : Digits[d + 1] = ch

RECURSIVE NatToStr(_)
NatToStr(n) ==
    IF n < 10 THEN <<Digits[n + 1]>>
    ELSE NatToStr(n \div 10) \o <<Digits[(n % 10) + 1]>>

\* ll2string: the decimal representation of a long long
ll2string(v) == IF v < 0 THEN <<"-">> \o NatToStr(-v) ELSE NatToStr(v)

RECURSIVE DigitsToNat(_)
DigitsToNat(s) ==
    IF s = <<>> THEN 0
    ELSE 10 * DigitsToNat(SubSeq(s, 1, Len(s) - 1)) + DigitVal(s[Len(s)])

AllDigits(s) == s # <<>> /\ \A i \in 1..Len(s) : IsDigit(s[i])

\* The mathematical value a decimal string denotes, or "bad".  An optional
\* minus sign followed by at least one digit; anything else does not parse.
IsDecimal(s) ==
    \/ AllDigits(s)
    \/ Len(s) >= 2 /\ s[1] = "-" /\ AllDigits(Tail(s))

DecimalValue(s) ==
    IF s[1] = "-" THEN -DigitsToNat(Tail(s)) ELSE DigitsToNat(s)

\* n zero bytes
RECURSIVE Zeros(_)
Zeros(n) == IF n <= 0 THEN <<>> ELSE <<NUL>> \o Zeros(n - 1)

(***************************************************************************)
(* Objects                                                                 *)
(***************************************************************************)

\* robj: type, encoding, refcount and the value behind ptr.  A raw or embstr
\* string keeps its bytes in ptr; an int-encoded string keeps the integer in
\* ival (the program stores it in the pointer itself).
Obj(type, encoding, refcount, ptr, ival) ==
    [type |-> type, encoding |-> encoding, refcount |-> refcount,
     ptr |-> ptr, ival |-> ival]

\* the result of a lookup that finds nothing
NULL == Obj("none", "none", 0, <<>>, 0)

\* createStringObject: embstr up to EmbstrLimit bytes, raw above
createStringObject(s) ==
    Obj("string", IF Len(s) <= EmbstrLimit THEN "embstr" ELSE "raw", 1, s, 0)

\* createObject(OBJ_STRING, sds): a raw string owning the buffer
createRawObject(s) == Obj("string", "raw", 1, s, 0)

\* dupStringObject of a command argument (arguments are created by
\* createStringObject, and the duplicate keeps the encoding)
dupStringObject(s) == createStringObject(s)

\* createStringObjectFromLongLong: a shared integer (refcount above 1) in
\* [0, OBJ_SHARED_INTEGERS), an int-encoded object inside the long range,
\* else the decimal string
createStringObjectFromLongLong(v) ==
    IF v >= 0 /\ v < OBJ_SHARED_INTEGERS THEN Obj("string", "int", 2, <<>>, v)
    ELSE IF v >= LONG_MIN /\ v <= LONG_MAX THEN Obj("string", "int", 1, <<>>, v)
    ELSE createRawObject(ll2string(v))

\* getDecodedObject / the bytes a reader of the string gets
StringOf(o) == IF o.encoding = "int" THEN ll2string(o.ival) ELSE o.ptr

\* stringObjectLen
stringObjectLen(o) == Len(StringOf(o))

(***************************************************************************)
(* State                                                                   *)
(***************************************************************************)

VARIABLES
    db,        \* the key -> Object map (NULL where the key is absent)
    expires,   \* the key -> expiration time map (NoExpire where none is set)
    dirty,     \* server.dirty
    reply,     \* what the last command added to the client's reply
    notes,     \* the keyspace events the last command emitted, in order
    cmd,       \* the last command: its name, key and further arguments
    pre,       \* db, expires and dirty as the last command found them
    fault,     \* "none", or the undefined behaviour / abort the process hit
    ncmds,     \* the number of commands executed so far
    trace,     \* the RCU calls, lookups and dereferences of the last command
    refs       \* the Objects the last command created or stored, with their
               \* reference counts as the command leaves them

kvVars == <<db, expires, dirty, reply, notes, cmd, pre, fault, ncmds, trace, refs>>

\* the heap and the threads, where commands run statement by statement
VARIABLES
    heap,      \* address -> sds buffer: [st, len, bytes], st unused/live/freed
    objs,      \* Object id -> [enc, ptr, committed]; committed is the value
               \* last installed or published for the Object
    kobj,      \* the Object the keyspace holds for "k" (0: absent), where threads run
    w,         \* the writer: program counter, command and locals
    nwrites,   \* commands the writer has finished or begun
    boundary,  \* the values "k" has held between commands, and the one it
               \* holds when the running command is complete
    waitFor,   \* readers synchronize_rcu is waiting for
    rd,        \* reader -> program counter and locals
    freedRead, \* a reader inside its section has dereferenced a freed buffer
    rfault     \* "none", or the undefined behaviour the writer hit

rcuVars == <<heap, objs, kobj, w, nwrites, boundary, waitFor, rd, freedRead, rfault>>
rcuVarsButW == <<heap, objs, kobj, nwrites, boundary, waitFor, rd, freedRead, rfault>>

\* the worker-thread descriptor and the OS threads launched from it
VARIABLES
    qd,        \* the q_thread descriptor: id, thread_id, cpu_id, fun_run, data
    qthreads,  \* the OS threads launched so far, in order of creation
    qret,      \* the last q_thread call: its name, arguments and result
    qcalls,    \* the number of q_thread calls made so far
    qfault     \* "none", or the undefined behaviour the process hit

qVars == <<qd, qthreads, qret, qcalls, qfault>>

vars == <<kvVars, rcuVars, qVars>>

Keys == {"a", "b"}
NoExpire == 0 - 1

\* replies: the shared objects, integers, bulk strings and errors
Reply(kind, n, s) == [kind |-> kind, n |-> n, s |-> s]
NoReply == Reply("none", 0, <<>>)
ok == Reply("ok", 0, <<>>)
nullbulk == Reply("nullbulk", 0, <<>>)
emptybulk == Reply("bulk", 0, <<>>)
czero == Reply("int", 0, <<>>)
cone == Reply("int", 1, <<>>)
LongLongReply(n) == Reply("int", n, <<>>)
BulkReply(s) == Reply("bulk", Len(s), s)
ErrorReply(msg) == Reply(msg, 0, <<>>)
syntaxerr == ErrorReply("err: syntax error")
wrongtypeerr == ErrorReply("err: wrong type")
notintegererr == ErrorReply("err: value is not an integer or out of range")
notfloaterr == ErrorReply("err: value is not a valid float")
expireerr == ErrorReply("err: invalid expire time")
offseterr == ErrorReply("err: offset is out of range")
toolongerr == ErrorReply("err: string exceeds maximum allowed size")
overflowerr == ErrorReply("err: increment or decrement would overflow")
nanerr == ErrorReply("err: increment would produce NaN or Infinity")
msetargserr == ErrorReply("err: wrong number of arguments for MSET")

Errors == {syntaxerr, wrongtypeerr, notintegererr, notfloaterr, expireerr,
           offseterr, toolongerr, overflowerr, nanerr, msetargserr}

Command(name, key, args) == [name |-> name, key |-> key, args |-> args]

\* One step of a command as the RCU discipline sees it: rcu_read_lock, a
\* key lookup, a dereference of the Object or its buffer, rcu_read_unlock,
\* or rcu_assign_pointer into an Object with this refcount and encoding
Event(ev, refcount, encoding) ==
    [ev |-> ev, refcount |-> refcount, encoding |-> encoding]
Lock == Event("rcu_read_lock", 0, "none")
Unlock == Event("rcu_read_unlock", 0, "none")
Lookup == Event("lookup", 0, "none")
Deref == Event("deref", 0, "none")
Publish(o) == Event("rcu_assign_pointer", o.refcount, o.encoding)

\* A handler's return: the new keyspace, reply and events; cmd and pre
\* record the call, tr its RCU steps.
Traced(c, d, e, n, r, nt, f, tr) ==
    /\ trace' = tr
    /\ db' = d
    /\ expires' = e
    /\ dirty' = n
    /\ reply' = r
    /\ notes' = nt
    /\ fault' = f
    /\ cmd' = c
    /\ pre' = [db |-> db, expires |-> expires, dirty |-> dirty]
    /\ ncmds' = ncmds + 1
    /\ UNCHANGED <<rcuVars, qVars>>

\* the return of a handler that makes no RCU call
Return(c, d, e, n, r, nt, f) == Traced(c, d, e, n, r, nt, f, <<>>)

\* a return after addReply alone
ReplyOnly(c, r) == Return(c, db, expires, dirty, r, <<>>, fault)

\* the same inside a read-side section
ReplyTraced(c, r, tr) == Traced(c, db, expires, dirty, r, <<>>, fault, tr)

\* commands are dispatched while the process runs (and the bound allows)
Running == fault = "none" /\ ncmds < MaxCmds

\* lookupKeyWrite / lookupKeyRead
lookupKey(d, k) == d[k]

\* getLongLongFromObjectOrReply on an argument: the value, or "bad" when the
\* string is no integer or is outside the long long range
ArgIsLongLong(s) == IsDecimal(s) /\ DecimalValue(s) \in LLRange

\* getLongLongFromObjectOrReply on a stored object (NULL counts as 0)
ObjIsLongLong(o) ==
    \/ o = NULL
    \/ o.encoding = "int"
    \/ o.encoding # "int" /\ ArgIsLongLong(o.ptr)

ObjLongLong(o) ==
    IF o = NULL THEN 0
    ELSE IF o.encoding = "int" THEN o.ival
    ELSE DecimalValue(o.ptr)

(***************************************************************************)
(* SET, SETNX, SETEX, PSETEX                                               *)
(***************************************************************************)

\* An Object a command creates or hands to the keyspace: its refcount, the
\* number of decrRefCount calls the command made on it, and whether the
\* keyspace holds it
Ref(role, refcount, released, stored) ==
    [role |-> role, refcount |-> refcount, released |-> released, stored |-> stored]

\* dupStringObject, createObject, createStringObject: one reference, the creator's
NewRef(role) == Ref(role, 1, 0, FALSE)

\* c->argv[j]: the client's command vector holds its one reference
ArgvRef == Ref("argv", 1, 0, FALSE)

incrRefCount(r) == [r EXCEPT !.refcount = @ + 1]
decrRefCount(r) == [r EXCEPT !.refcount = @ - 1, !.released = @ + 1]

\* dbAdd, dbOverwrite: the keyspace takes over the pointer it is given
dbAdd(r) == [r EXCEPT !.stored = TRUE]

\* setKey: dbAdd or dbOverwrite, and a reference of its own for the keyspace
setKey(r) == incrRefCount(dbAdd(r))

\* setGenericCommand reaches its setKey
setGenericWrites(flags, k, hasExpire, expire) ==
    /\ ~(hasExpire /\ ~ArgIsLongLong(expire))
    /\ ~(hasExpire /\ DecimalValue(expire) <= 0)
    /\ ~("NX" \in flags /\ lookupKey(db, k) # NULL)
    /\ ~("XX" \in flags /\ lookupKey(db, k) = NULL)

\* setCommand, setnxCommand: the duplicates go to setGenericCommand and are
\* released after it
setRefs(writes) ==
    LET val == NewRef("val")
        key == NewRef("key")
    IN <<decrRefCount(IF writes THEN setKey(val) ELSE val), decrRefCount(key)>>

\* setexCommand, psetexCommand: the duplicates are made and released, and
\* setGenericCommand is given c->argv[1] and c->argv[3]
setexRefs(writes) ==
    LET key == NewRef("key")
        val == NewRef("val")
    IN <<decrRefCount(key), decrRefCount(val)>>
       \o (IF writes THEN <<setKey(ArgvRef)>> ELSE <<>>)

\* setKey: store val under key (the keyspace takes its own reference, the
\* command releases the temporary), removing any expire
setKeyDb(d, k, val) == [d EXCEPT ![k] = val]
setKeyExpires(e, k) == [e EXCEPT ![k] = NoExpire]

\* mstime() is taken as 0: an expiration time is the milliseconds to live
setExpire(e, k, when) == [e EXCEPT ![k] = when]

setGenericCommand(c, flags, k, val, hasExpire, expire, unit, ok_reply, abort_reply) ==
    IF hasExpire /\ ~ArgIsLongLong(expire) THEN ReplyOnly(c, notintegererr)
    ELSE IF hasExpire /\ DecimalValue(expire) <= 0 THEN ReplyOnly(c, expireerr)
    ELSE
        LET ms0 == IF hasExpire THEN DecimalValue(expire) ELSE 0
            milliseconds == IF hasExpire /\ unit = "seconds"
                            THEN WrapLL(ms0 * MsPerSec) ELSE ms0
        IN IF \/ "NX" \in flags /\ lookupKey(db, k) # NULL
              \/ "XX" \in flags /\ lookupKey(db, k) = NULL
           THEN ReplyOnly(c, abort_reply)
           ELSE Return(c,
                       setKeyDb(db, k, val),
                       IF hasExpire
                       THEN setExpire(setKeyExpires(expires, k), k, milliseconds)
                       ELSE setKeyExpires(expires, k),
                       dirty + 1,
                       ok_reply,
                       IF hasExpire THEN <<<<"set", k>>, <<"expire", k>>>>
                       ELSE <<<<"set", k>>>>,
                       fault)

\* an option of SET: two characters, the first c1 in either case, the second x
IsOption(a, lower, upper) ==
    Len(a) = 2 /\ a[1] \in {lower, upper} /\ a[2] \in {"x", "X"}

\* the option loop of setCommand, from argument j of opts on
RECURSIVE ParseSetOptions(_, _, _)
ParseSetOptions(opts, j, st) ==
    IF j > Len(opts) THEN st
    ELSE
        LET a == opts[j]
            hasNext == j < Len(opts)
        IN IF IsOption(a, "n", "N") /\ "XX" \notin st.flags
           THEN ParseSetOptions(opts, j + 1, [st EXCEPT !.flags = @ \cup {"NX"}])
           ELSE IF IsOption(a, "x", "X") /\ "NX" \notin st.flags
           THEN ParseSetOptions(opts, j + 1, [st EXCEPT !.flags = @ \cup {"XX"}])
           ELSE IF IsOption(a, "e", "E") /\ "PX" \notin st.flags /\ hasNext
           THEN ParseSetOptions(opts, j + 2,
                    [st EXCEPT !.flags = @ \cup {"EX"}, !.unit = "seconds",
                               !.hasExpire = TRUE, !.expire = opts[j + 1]])
           ELSE IF IsOption(a, "p", "P") /\ "EX" \notin st.flags /\ hasNext
           THEN ParseSetOptions(opts, j + 2,
                    [st EXCEPT !.flags = @ \cup {"PX"}, !.unit = "milliseconds",
                               !.hasExpire = TRUE, !.expire = opts[j + 1]])
           ELSE [st EXCEPT !.syntaxError = TRUE]

NoOptions ==
    [flags |-> {}, unit |-> "seconds", hasExpire |-> FALSE, expire |-> <<>>,
     syntaxError |-> FALSE]

setCommand(k, v, opts) ==
    LET c == Command("SET", k, <<v>> \o opts)
        st == ParseSetOptions(opts, 1, NoOptions)
    IN /\ Running
       /\ IF st.syntaxError THEN ReplyOnly(c, syntaxerr)
          ELSE setGenericCommand(c, st.flags, k, dupStringObject(v),
                                 st.hasExpire, st.expire, st.unit, ok, nullbulk)
       /\ refs' = IF st.syntaxError THEN <<>>
                  ELSE setRefs(setGenericWrites(st.flags, k, st.hasExpire, st.expire))

setnxCommand(k, v) ==
    /\ Running
    /\ setGenericCommand(Command("SETNX", k, <<v>>), {"NX"}, k,
                         dupStringObject(v), FALSE, <<>>, "seconds", cone, czero)
    /\ refs' = setRefs(setGenericWrites({"NX"}, k, FALSE, <<>>))

\* SETEX and PSETEX store the argument objects themselves
setexCommand(k, secs, v) ==
    /\ Running
    /\ setGenericCommand(Command("SETEX", k, <<secs, v>>), {}, k,
                         createStringObject(v), TRUE, secs, "seconds", ok, nullbulk)
    /\ refs' = setexRefs(setGenericWrites({}, k, TRUE, secs))

psetexCommand(k, ms, v) ==
    /\ Running
    /\ setGenericCommand(Command("PSETEX", k, <<ms, v>>), {}, k,
                         createStringObject(v), TRUE, ms, "milliseconds", ok, nullbulk)
    /\ refs' = setexRefs(setGenericWrites({}, k, TRUE, ms))

(***************************************************************************)
(* GET, GETSET, STRLEN, MGET                                               *)
(***************************************************************************)

\* getGenericCommand's reply
getGenericReply(o) ==
    IF o = NULL THEN nullbulk
    ELSE IF o.type # "string" THEN wrongtypeerr
    ELSE BulkReply(StringOf(o))

\* (a getGenericCommand whose wrong-type return leaves the section open)
getGenericSection_nounlock(o) ==
    IF o = NULL THEN <<Lock, Lookup, Unlock>>
    ELSE IF o.type # "string" THEN <<Lock, Lookup, Deref>>
    ELSE <<Lock, Lookup, Deref, Deref, Unlock>>

\* getGenericCommand's RCU steps on its three return paths: the lookup, the
\* read of o->type and addReplyBulk lie between the lock and the unlock
getGenericSection(o) ==
    IF o = NULL THEN <<Lock, Lookup, Unlock>>
    ELSE IF o.type # "string" THEN <<Lock, Lookup, Deref, Unlock>>
    ELSE <<Lock, Lookup, Deref, Deref, Unlock>>

getCommand(k) ==
    LET o == lookupKey(db, k)
    IN /\ Running
       /\ ReplyTraced(Command("GET", k, <<>>), getGenericReply(o),
                      getGenericSection(o))
       /\ refs' = <<>>

getsetCommand(k, v) ==
    LET c == Command("GETSET", k, <<v>>)
        o == lookupKey(db, k)
        r == getGenericReply(o)
    IN /\ Running
       /\ IF r = wrongtypeerr THEN ReplyTraced(c, r, getGenericSection(o))
          ELSE Traced(c, setKeyDb(db, k, dupStringObject(v)),
                      setKeyExpires(expires, k), dirty + 1, r,
                      <<<<"set", k>>>>, fault, getGenericSection(o))
       /\ refs' = IF r = wrongtypeerr THEN <<>>
                  ELSE <<decrRefCount(NewRef("key")), decrRefCount(setKey(NewRef("val")))>>

\* strlenCommand's RCU steps: checkType and stringObjectLen read the Object
strlenSection(o) ==
    IF o = NULL THEN <<Lock, Lookup, Unlock>>
    ELSE IF o.type # "string" THEN <<Lock, Lookup, Deref, Unlock>>
    ELSE <<Lock, Lookup, Deref, Deref, Unlock>>

strlenCommand(k) ==
    LET o == lookupKey(db, k)
    IN /\ Running
       /\ ReplyTraced(Command("STRLEN", k, <<>>),
                      IF o = NULL THEN czero
                      ELSE IF o.type # "string" THEN wrongtypeerr
                      ELSE LongLongReply(stringObjectLen(o)),
                      strlenSection(o))
       /\ refs' = <<>>

(***************************************************************************)
(* SETRANGE                                                                *)
(***************************************************************************)

\* checkStringLength(c, size): size is a long long
checkStringLength(size) == size <= StringLimit

\* offset + sdslen(value): a long plus a size_t, computed in size_t
SizeT(x) == x % Pow2(LLBits)

\* what checkStringLength receives for offset + sdslen(value): the size_t
\* sum converted to long long
SetrangeCheckedSize(offset, len) == WrapLL(SizeT(offset + len))

\* sdsnewlen / sdsgrowzero of n bytes can succeed: no allocation reaches half
\* of the address space.  Otherwise the allocator's out-of-memory handler
\* aborts the process.
CanAllocate(n) == n <= LLONG_MAX

\* dbUnshareStringValue: the object itself when it has one owner and the raw
\* encoding, else a raw copy that replaces it in the keyspace
dbUnshareStringValue(o) ==
    IF o.refcount # 1 \/ o.encoding # "raw"
    THEN createRawObject(StringOf(o))
    ELSE o

\* sdsgrowzero(s, n): s, zero-padded to n bytes when shorter
sdsgrowzero(s, n) == IF n > Len(s) THEN s \o Zeros(n - Len(s)) ELSE s

\* (a copy to the start of the buffer, the offset forgotten)
memcpyAt_nooffset(s, offset, value) ==
    [i \in 1..Len(s) |-> IF i <= Len(value) THEN value[i] ELSE s[i]]

\* memcpy(nc + offset, value, sdslen(value))
memcpyAt(s, offset, value) ==
    [i \in 1..Len(s) |->
        IF i > offset /\ i <= offset + Len(value) THEN value[i - offset] ELSE s[i]]

\* the buffer SETRANGE publishes: a zero-grown duplicate with value written in
SetrangeBuffer(old, offset, value) ==
    memcpyAt(sdsgrowzero(old, SizeT(offset + Len(value))), offset, value)

\* sdslen(value) == 0: there is nothing to set
NothingToSet_never(value) == FALSE

NothingToSet(value) == Len(value) = 0

\* setrangeCommand: the Object created for an absent key goes to dbAdd
setrangeRefs(offsetArg, value, o) ==
    IF /\ ArgIsLongLong(offsetArg)
       /\ DecimalValue(offsetArg) >= 0
       /\ o = NULL
       /\ ~NothingToSet(value)
       /\ checkStringLength(SetrangeCheckedSize(DecimalValue(offsetArg), Len(value)))
       /\ CanAllocate(SizeT(DecimalValue(offsetArg) + Len(value)))
    THEN <<dbAdd(NewRef("new"))>>
    ELSE <<>>

setrangeCommand(k, offsetArg, value) ==
    LET c == Command("SETRANGE", k, <<offsetArg, value>>)
        offset == DecimalValue(offsetArg)
        o == lookupKey(db, k)
        size == SizeT(offset + Len(value))
        \* the object the edit is applied to
        target == IF o = NULL THEN createRawObject(Zeros(size))
                  ELSE dbUnshareStringValue(o)
        nc == SetrangeBuffer(target.ptr, offset, value)
        written == [target EXCEPT !.ptr = nc]
    IN /\ Running
       /\ IF ~ArgIsLongLong(offsetArg) THEN ReplyOnly(c, notintegererr)
          ELSE IF offset < 0 THEN ReplyOnly(c, offseterr)
          ELSE IF o = NULL /\ NothingToSet(value) THEN ReplyOnly(c, czero)
          ELSE IF o # NULL /\ o.type # "string" THEN ReplyOnly(c, wrongtypeerr)
          ELSE IF o # NULL /\ NothingToSet(value)
               THEN ReplyOnly(c, LongLongReply(stringObjectLen(o)))
          ELSE IF ~checkStringLength(SetrangeCheckedSize(offset, Len(value)))
               THEN ReplyOnly(c, toolongerr)
          ELSE IF ~CanAllocate(size)
               \* sdsnewlen (absent key: before dbAdd) or sdsgrowzero (existing
               \* key: after the unshare) cannot allocate: the process aborts
               THEN Return(c, IF o = NULL THEN db ELSE [db EXCEPT ![k] = target],
                           expires, dirty, NoReply, <<>>, "abort: out of memory")
          ELSE Traced(c, [db EXCEPT ![k] = written], expires, dirty + 1,
                      LongLongReply(Len(nc)), <<<<"setrange", k>>>>, fault,
                      <<Publish(target)>>)
       /\ refs' = setrangeRefs(offsetArg, value, o)

(***************************************************************************)
(* GETRANGE                                                                *)
(***************************************************************************)

\* (the index arithmetic without the clamp of a still negative end to 0)
GetrangeIndexes_endnegative(start0, end0, strlen) ==
    IF start0 < 0 /\ end0 < 0 /\ start0 > end0 THEN <<>>
    ELSE
        LET s1 == IF start0 < 0 THEN WrapLL(strlen + start0) ELSE start0
            e1 == IF end0 < 0 THEN WrapLL(strlen + end0) ELSE end0
            s2 == IF s1 < 0 THEN 0 ELSE s1
            e3 == IF e1 >= strlen THEN WrapLL(strlen - 1) ELSE e1
        IN <<s2, e3>>

\* the index arithmetic of getrangeCommand on a string of strlen bytes:
\* <<start, end>>, or <<>> standing for the early empty reply
GetrangeIndexes(start0, end0, strlen) ==
    IF start0 < 0 /\ end0 < 0 /\ start0 > end0 THEN <<>>
    ELSE
        LET s1 == IF start0 < 0 THEN WrapLL(strlen + start0) ELSE start0
            e1 == IF end0 < 0 THEN WrapLL(strlen + end0) ELSE end0
            s2 == IF s1 < 0 THEN 0 ELSE s1
            e2 == IF e1 < 0 THEN 0 ELSE e1
            e3 == IF e2 >= strlen THEN WrapLL(strlen - 1) ELSE e2
        IN <<s2, e3>>

GetrangeReply(str, start0, end0) ==
    LET ix == GetrangeIndexes(start0, end0, Len(str))
    IN IF ix = <<>> THEN emptybulk
       ELSE IF ix[1] > ix[2] \/ Len(str) = 0 THEN emptybulk
       ELSE BulkReply(SubSeq(str, ix[1] + 1, ix[2] + 1))

\* getrangeCommand's RCU steps on its return paths: an unparsable index, a
\* missing key, a wrong type, an empty reply (the string's length was read)
\* and a reply with bytes copied from the buffer
getrangeSection(startArg, endArg, o) ==
    IF ~ArgIsLongLong(startArg) \/ ~ArgIsLongLong(endArg) THEN <<Lock, Unlock>>
    ELSE IF o = NULL THEN <<Lock, Lookup, Unlock>>
    ELSE IF o.type # "string" THEN <<Lock, Lookup, Deref, Unlock>>
    ELSE IF GetrangeReply(StringOf(o), DecimalValue(startArg),
                          DecimalValue(endArg)) = emptybulk
    THEN <<Lock, Lookup, Deref, Deref, Unlock>>
    ELSE <<Lock, Lookup, Deref, Deref, Deref, Unlock>>

getrangeCommand(k, startArg, endArg) ==
    LET c == Command("GETRANGE", k, <<startArg, endArg>>)
        o == lookupKey(db, k)
        tr == getrangeSection(startArg, endArg, o)
    IN /\ Running
       /\ IF ~ArgIsLongLong(startArg) THEN ReplyTraced(c, notintegererr, tr)
          ELSE IF ~ArgIsLongLong(endArg) THEN ReplyTraced(c, notintegererr, tr)
          ELSE IF o = NULL THEN ReplyTraced(c, emptybulk, tr)
          ELSE IF o.type # "string" THEN ReplyTraced(c, wrongtypeerr, tr)
          ELSE ReplyTraced(c, GetrangeReply(StringOf(o), DecimalValue(startArg),
                                            DecimalValue(endArg)), tr)
       /\ refs' = <<>>

(***************************************************************************)
(* MGET, MSET, MSETNX                                                      *)
(***************************************************************************)

\* the RCU steps of mgetCommand's loop from key j on
RECURSIVE mgetLoop(_, _)
mgetLoop(ks, j) ==
    IF j > Len(ks) THEN <<>>
    ELSE LET o == lookupKey(db, ks[j])
         IN (IF o = NULL THEN <<Lookup>>
             ELSE IF o.type # "string" THEN <<Lookup, Deref>>
             ELSE <<Lookup, Deref, Deref>>) \o mgetLoop(ks, j + 1)

\* mgetCommand's RCU steps: one section around the whole loop
mgetSection(ks) == <<Lock>> \o mgetLoop(ks, 1) \o <<Unlock>>

mgetCommand(ks) ==
    /\ Running
    /\ ReplyTraced(Command("MGET", ks[1], <<ks>>),
                   Reply("multibulk", Len(ks),
                         [j \in 1..Len(ks) |->
                             LET o == lookupKey(db, ks[j])
                             IN IF o = NULL \/ o.type # "string" THEN nullbulk
                                ELSE BulkReply(StringOf(o))]),
                   mgetSection(ks))
    /\ refs' = <<>>

\* the number of key/value pairs the write loop of msetGenericCommand visits
NPairs(kvs) == Len(kvs) \div 2

\* (an existence test that looks at the first listed key only)
busykeys_firstonly(d, kvs, j) ==
    IF lookupKey(d, kvs[1]) # NULL THEN 1 ELSE 0

\* the existence loop of MSETNX: the number of listed keys that exist
RECURSIVE busykeys(_, _, _)
busykeys(d, kvs, j) ==
    IF j > NPairs(kvs) THEN 0
    ELSE (IF lookupKey(d, kvs[2 * j - 1]) # NULL THEN 1 ELSE 0)
         + busykeys(d, kvs, j + 1)

\* the write loop: setKey for pair j, then the following pairs
RECURSIVE msetDb(_, _, _)
msetDb(d, kvs, j) ==
    IF j > NPairs(kvs) THEN d
    ELSE msetDb(setKeyDb(d, kvs[2 * j - 1], dupStringObject(kvs[2 * j])), kvs, j + 1)

RECURSIVE msetExpires(_, _, _)
msetExpires(e, kvs, j) ==
    IF j > NPairs(kvs) THEN e
    ELSE msetExpires(setKeyExpires(e, kvs[2 * j - 1]), kvs, j + 1)

\* (a write loop counted as one write)
msetDirty_one(argc) == 1

\* server.dirty += (c->argc - 1) / 2
msetDirty(argc) == (argc - 1) \div 2

\* msetGenericCommand: the NX loop duplicates and releases each key; the
\* write loop duplicates each key and value, stores the value with setKey
\* and releases both
msetRefs(kvs, nx) ==
    LET argc == Len(kvs) + 1
        checked == IF nx THEN [j \in 1..NPairs(kvs) |-> decrRefCount(NewRef("key"))]
                   ELSE <<>>
        written == [j \in 1..(2 * NPairs(kvs)) |->
                       IF j % 2 = 1 THEN decrRefCount(NewRef("key"))
                       ELSE decrRefCount(setKey(NewRef("val")))]
    IN IF argc % 2 = 0 THEN <<>>
       ELSE IF nx /\ busykeys(db, kvs, 1) # 0 THEN checked
       ELSE checked \o written

\* kvs is argv[1..]: keys at the odd places, values at the even ones
msetGenericCommand(name, kvs, nx) ==
    LET c == Command(name, kvs[1], <<kvs>>)
        argc == Len(kvs) + 1
    IN /\ Running
       /\ IF argc % 2 = 0 THEN ReplyOnly(c, msetargserr)
          ELSE IF nx /\ busykeys(db, kvs, 1) # 0 THEN ReplyOnly(c, czero)
          ELSE Return(c, msetDb(db, kvs, 1), msetExpires(expires, kvs, 1),
                      dirty + msetDirty(argc),
                      IF nx THEN cone ELSE ok,
                      [j \in 1..NPairs(kvs) |-> <<"set", kvs[2 * j - 1]>>],
                      fault)
       /\ refs' = msetRefs(kvs, nx)

msetCommand(kvs) == msetGenericCommand("MSET", kvs, FALSE)

msetnxCommand(kvs) == msetGenericCommand("MSETNX", kvs, TRUE)

(***************************************************************************)
(* INCR, DECR, INCRBY, DECRBY                                              *)
(***************************************************************************)

\* the overflow test of incrDecrCommand, on long long operands
IncrOverflows(oldvalue, incr) ==
    \/ incr < 0 /\ oldvalue < 0 /\ incr < LLONG_MIN - oldvalue
    \/ incr > 0 /\ oldvalue > 0 /\ incr > LLONG_MAX - oldvalue

\* (an update in place that does not ask for a single owner)
IncrInPlace_shared(o, value) ==
    /\ o # NULL
    /\ o.encoding = "int"
    /\ (value < 0 \/ value >= OBJ_SHARED_INTEGERS)
    /\ value >= LONG_MIN
    /\ value <= LONG_MAX

\* the update in place: one owner, int-encoded, and the new value neither a
\* shared integer nor outside long
IncrInPlace(o, value) ==
    /\ o # NULL
    /\ o.refcount = 1
    /\ o.encoding = "int"
    /\ (value < 0 \/ value >= OBJ_SHARED_INTEGERS)
    /\ value >= LONG_MIN
    /\ value <= LONG_MAX

\* (an incrDecrCommand that stores the sum before it tests for overflow)
incrDecrCommand_writefirst(c, k, incr) ==
    LET o == lookupKey(db, k)
        oldvalue == ObjLongLong(o)
        new == createStringObjectFromLongLong(WrapLL(oldvalue + incr))
    IN IF o # NULL /\ o.type # "string" THEN ReplyOnly(c, wrongtypeerr)
       ELSE IF ~ObjIsLongLong(o) THEN ReplyOnly(c, notintegererr)
       ELSE IF IncrOverflows(oldvalue, incr)
       THEN Return(c, [db EXCEPT ![k] = new], expires, dirty, overflowerr, <<>>, fault)
       ELSE Return(c, [db EXCEPT ![k] = new], expires, dirty + 1,
                   LongLongReply(ObjLongLong(new)), <<<<"incrby", k>>>>, fault)

incrDecrCommand(c, k, incr) ==
    LET o == lookupKey(db, k)
        oldvalue == ObjLongLong(o)
        value == oldvalue + incr
        new == IF IncrInPlace(o, value) THEN [o EXCEPT !.ival = value]
               ELSE createStringObjectFromLongLong(value)
    IN IF o # NULL /\ o.type # "string" THEN ReplyOnly(c, wrongtypeerr)
       ELSE IF ~ObjIsLongLong(o) THEN ReplyOnly(c, notintegererr)
       ELSE IF IncrOverflows(oldvalue, incr) THEN ReplyOnly(c, overflowerr)
       ELSE Traced(c, [db EXCEPT ![k] = new], expires, dirty + 1,
                   LongLongReply(ObjLongLong(new)), <<<<"incrby", k>>>>, fault,
                   IF IncrInPlace(o, value) THEN <<Publish(o)>> ELSE <<>>)

\* incrDecrCommand: the Object of createStringObjectFromLongLong goes to
\* dbOverwrite or dbAdd; the update in place creates none
incrDecrRefs(k, incr) ==
    LET o == lookupKey(db, k)
        oldvalue == ObjLongLong(o)
        value == oldvalue + incr
    IN IF o # NULL /\ o.type # "string" THEN <<>>
       ELSE IF ~ObjIsLongLong(o) THEN <<>>
       ELSE IF IncrOverflows(oldvalue, incr) THEN <<>>
       ELSE IF IncrInPlace(o, value) THEN <<>>
       ELSE <<dbAdd(Ref("new", createStringObjectFromLongLong(value).refcount,
                        0, FALSE))>>

incrCommand(k) ==
    /\ Running
    /\ incrDecrCommand(Command("INCR", k, <<>>), k, 1)
    /\ refs' = incrDecrRefs(k, 1)

decrCommand(k) ==
    /\ Running
    /\ incrDecrCommand(Command("DECR", k, <<>>), k, -1)
    /\ refs' = incrDecrRefs(k, -1)

incrbyCommand(k, arg) ==
    LET c == Command("INCRBY", k, <<arg>>)
    IN /\ Running
       /\ IF ~ArgIsLongLong(arg) THEN ReplyOnly(c, notintegererr)
          ELSE incrDecrCommand(c, k, DecimalValue(arg))
       /\ refs' = IF ~ArgIsLongLong(arg) THEN <<>>
                  ELSE incrDecrRefs(k, DecimalValue(arg))

\* -incr on a long long.  The negation of LLONG_MIN overflows, which is
\* undefined: a build that wraps yields LLONG_MIN again, a build that traps
\* signed overflow aborts.
Negate(incr) == WrapLL(-incr)
NegateOutcomes(incr) == IF incr = LLONG_MIN THEN {"wrap", "trap"} ELSE {"exact"}

decrbyCommand(k, arg) ==
    LET c == Command("DECRBY", k, <<arg>>)
    IN /\ Running
       /\ IF ~ArgIsLongLong(arg) THEN ReplyOnly(c, notintegererr) /\ refs' = <<>>
          ELSE \E outcome \in NegateOutcomes(DecimalValue(arg)) :
                  IF outcome = "trap"
                  THEN /\ Return(c, db, expires, dirty, NoReply, <<>>,
                                 "abort: signed overflow")
                       /\ refs' = <<>>
                  ELSE /\ incrDecrCommand(c, k, Negate(DecimalValue(arg)))
                       /\ refs' = incrDecrRefs(k, Negate(DecimalValue(arg)))

(***************************************************************************)
(* INCRBYFLOAT                                                             *)
(***************************************************************************)

\* long double values: the integers and the two infinities (inf is -1, 0, 1)
LongDouble(inf, v) == [inf |-> inf, v |-> v]
NotANumber == LongDouble(2, 0)

InfString == <<"i", "n", "f">>

\* strtold on a whole string: an integer, "inf" or "-inf"
IsLongDoubleString(s) ==
    IsDecimal(s) \/ s = InfString \/ s = <<"-">> \o InfString

ParseLongDouble(s) ==
    IF s = InfString THEN LongDouble(1, 0)
    ELSE IF s = <<"-">> \o InfString THEN LongDouble(-1, 0)
    ELSE LongDouble(0, DecimalValue(s))

\* getLongDoubleFromObjectOrReply on a stored object (NULL counts as 0)
ObjIsLongDouble(o) ==
    \/ o = NULL
    \/ o.encoding = "int"
    \/ o.encoding # "int" /\ IsLongDoubleString(o.ptr)

ObjLongDouble(o) ==
    IF o = NULL THEN LongDouble(0, 0)
    ELSE IF o.encoding = "int" THEN LongDouble(0, o.ival)
    ELSE ParseLongDouble(o.ptr)

AddLongDouble(x, y) ==
    IF x.inf = 0 /\ y.inf = 0 THEN LongDouble(0, x.v + y.v)
    ELSE IF x.inf = 0 THEN y
    ELSE IF y.inf = 0 \/ y.inf = x.inf THEN x
    ELSE NotANumber

incrbyfloatCommand(k, arg) ==
    LET c == Command("INCRBYFLOAT", k, <<arg>>)
        o == lookupKey(db, k)
        value == AddLongDouble(ObjLongDouble(o), ParseLongDouble(arg))
        new == createStringObject(ll2string(value.v))
    IN /\ Running
       /\ IF o # NULL /\ o.type # "string" THEN ReplyOnly(c, wrongtypeerr)
          ELSE IF ~ObjIsLongDouble(o) \/ ~IsLongDoubleString(arg)
               THEN ReplyOnly(c, notfloaterr)
          ELSE IF value.inf # 0 THEN ReplyOnly(c, nanerr)
          ELSE Return(c, [db EXCEPT ![k] = new], expires, dirty + 1,
                      BulkReply(new.ptr), <<<<"incrbyfloat", k>>>>, fault)
       \* new goes to dbOverwrite or dbAdd; aux is created and released
       /\ refs' = IF \/ o # NULL /\ o.type # "string"
                     \/ ~ObjIsLongDouble(o) \/ ~IsLongDoubleString(arg)
                     \/ value.inf # 0
                  THEN <<>>
                  ELSE <<dbAdd(NewRef("new")), decrRefCount(NewRef("aux"))>>

(***************************************************************************)
(* APPEND                                                                  *)
(***************************************************************************)

\* What sdscatlen(o->ptr, ...) can do to the buffer of an existing key:
\* extend it where it is ("inplace": the returned pointer is o->ptr itself) or
\* move it ("moved": realloc frees the block o->ptr still names).  Appending
\* nothing never moves.
SdscatlenOutcomes(append) ==
    IF Len(append) = 0 THEN {"inplace"} ELSE {"inplace", "moved"}

\* What sdsfree(oc) then does.  In place, oc is the buffer just published:
\* the Object is left with a freed buffer, which sdslen(o->ptr) reads.  Moved,
\* oc was freed by realloc already: a double free, which the allocator
\* either detects (abort) or not.
AppendFaults(outcome) ==
    IF outcome = "inplace" THEN {"use after free"}
    ELSE {"double free", "abort: double free"}

\* appendCommand: key and val are duplicated first.  An absent key: val
\* goes to dbAdd and gets the keyspace's reference, and both are released at
\* the end.  A key of another type: the return after checkType releases
\* neither.  The length error and the edit release both.
appendRefs(o) ==
    LET key == NewRef("key")
        val == NewRef("val")
    IN IF o = NULL
       THEN <<decrRefCount(key), decrRefCount(incrRefCount(dbAdd(val)))>>
       ELSE IF o.type # "string" THEN <<key, val>>
       ELSE <<decrRefCount(key), decrRefCount(val)>>

appendCommand(k, v) ==
    LET c == Command("APPEND", k, <<v>>)
        o == lookupKey(db, k)
        val == dupStringObject(v)
        totlen == SizeT(stringObjectLen(o) + Len(v))
        target == dbUnshareStringValue(o)
        written == [target EXCEPT !.ptr = target.ptr \o v]
    IN /\ Running
       /\ IF o = NULL
          THEN Return(c, [db EXCEPT ![k] = val], expires, dirty + 1,
                      LongLongReply(stringObjectLen(val)), <<<<"append", k>>>>, fault)
          ELSE IF o.type # "string" THEN ReplyOnly(c, wrongtypeerr)
          ELSE IF ~checkStringLength(WrapLL(totlen)) THEN ReplyOnly(c, toolongerr)
          ELSE \E outcome \in SdscatlenOutcomes(v) :
               \E f \in AppendFaults(outcome) :
                  IF f = "abort: double free"
                  THEN Traced(c, [db EXCEPT ![k] = written], expires, dirty,
                              NoReply, <<>>, f, <<Publish(target)>>)
                  ELSE Traced(c, [db EXCEPT ![k] = written], expires, dirty + 1,
                              LongLongReply(Len(written.ptr)),
                              <<<<"append", k>>>>, f, <<Publish(target)>>)
       /\ refs' = appendRefs(o)

(***************************************************************************)
(* Keys of other types                                                     *)
(***************************************************************************)

\* A command of another data type (outside t_string.c) creates a key that is
\* no string: what checkType and the type tests of the string commands meet.
listKeyCreated(k) ==
    /\ Running
    /\ lookupKey(db, k) = NULL
    /\ refs' = <<>>
    /\ Return(Command("LPUSH", k, <<>>),
              [db EXCEPT ![k] = Obj("list", "quicklist", 1, <<>>, 0)],
              expires, dirty + 1, cone, <<<<"lpush", k>>>>, fault)

(***************************************************************************)
(* The heap, the RCU domain and the threads, for APPEND and SETRANGE run   *)
(* statement by statement beside readers.  One key, "k".                   *)
(***************************************************************************)

\* the number of APPEND/SETRANGE commands the writer thread is given
MaxWrites == 2

\* the number of reader threads, and of GETs each of them runs
NReaders == 2
MaxReads == 1

Readers == 1..NReaders

\* every command allocates at most two buffers and one Object
Addrs == 1..(2 * MaxWrites)
ObjIds == 1..(2 * MaxWrites)

\* what a reader gets for the length of a freed buffer besides the stale one
Garbage == 0 - 1

Buffer(st, len, bytes) == [st |-> st, len |-> len, bytes |-> bytes]
NoBuffer == Buffer("unused", 0, <<>>)
NoObject == [enc |-> "none", ptr |-> 0, committed |-> <<>>]

\* the bytes of a buffer as sdslen and the contents give them
Contents(b) == SubSeq(b.bytes, 1, b.len)

\* zmalloc: the lowest address never handed out
Alloc(h) == CHOOSE a \in Addrs : h[a].st = "unused" /\ \A b \in 1..(a - 1) : h[b].st # "unused"
NewObj(os) == CHOOSE i \in ObjIds : os[i].enc = "none" /\ \A j \in 1..(i - 1) : os[j].enc # "none"

Writer(pc, name, offset, v, o, oc, nc) ==
    [pc |-> pc, name |-> name, offset |-> offset, v |-> v, o |-> o, oc |-> oc, nc |-> nc]
IdleWriter == Writer("idle", "none", 0, <<>>, 0, 0, 0)

Reader(pc, o, p, len, bytes, expect, reads) ==
    [pc |-> pc, o |-> o, p |-> p, len |-> len, bytes |-> bytes,
     expect |-> expect, reads |-> reads]

\* between rcu_read_lock and rcu_read_unlock
InSection(r) == rd[r].pc \in {"locked", "loadptr", "len", "bytes", "unlock"}

RcuInit ==
    /\ heap = [a \in Addrs |-> NoBuffer]
    /\ objs = [i \in ObjIds |-> NoObject]
    /\ kobj = 0
    /\ w = IdleWriter
    /\ nwrites = 0
    /\ boundary = {}
    /\ waitFor = {}
    /\ rd = [r \in Readers |-> Reader("idle", 0, 0, 0, <<>>, <<>>, 0)]
    /\ freedRead = FALSE
    /\ rfault = "none"

\* the writer returns to the command loop
WriterReturns(r, events, n) ==
    /\ w' = IdleWriter
    /\ reply' = r
    /\ notes' = events
    /\ dirty' = dirty + n
    /\ UNCHANGED <<db, expires, cmd, pre, fault, ncmds, trace, refs>>
    /\ UNCHANGED qVars

WriterGoes(next) ==
    /\ w' = next
    /\ UNCHANGED <<kvVars, qVars>>

\* dbUnshareStringValue: the Object itself when it is raw, else a raw copy
\* that replaces it in the keyspace; the writer goes on to pc with it
Unshares(pc, name, offset, v) ==
    LET a == Alloc(heap)
        i == NewObj(objs)
        old == heap[objs[kobj].ptr]
    IN IF objs[kobj].enc # "raw"
       THEN /\ heap' = [heap EXCEPT ![a] = Buffer("live", old.len, Contents(old))]
            /\ objs' = [objs EXCEPT ![i] = [enc |-> "raw", ptr |-> a,
                                            committed |-> Contents(old)]]
            /\ kobj' = i
            /\ WriterGoes(Writer(pc, name, offset, v, i, 0, 0))
       ELSE /\ UNCHANGED <<heap, objs, kobj>>
            /\ WriterGoes(Writer(pc, name, offset, v, kobj, 0, 0))

\* setrangeCommand up to the first statement of the edit: the key is looked
\* up; an absent key gets a zero-filled raw Object (createObject, dbAdd); an
\* existing one is checked and unshared.
setrangeBegins(offset, v) ==
    LET size == SizeT(offset + Len(v))
        a == Alloc(heap)
        i == NewObj(objs)
        o == objs[kobj]
        old == heap[o.ptr]
    IN /\ w.pc = "idle"
       /\ nwrites < MaxWrites
       /\ rfault = "none"
       /\ nwrites' = nwrites + 1
       /\ UNCHANGED <<waitFor, rd, freedRead, rfault>>
       /\ IF kobj = 0
          THEN IF ~checkStringLength(SetrangeCheckedSize(offset, Len(v)))
               THEN /\ WriterReturns(toolongerr, <<>>, 0)
                    /\ UNCHANGED <<heap, objs, kobj, boundary>>
               ELSE /\ boundary' = boundary \cup {SetrangeBuffer(<<>>, offset, v)}
                    /\ heap' = [heap EXCEPT ![a] = Buffer("live", size, Zeros(size))]
                    /\ objs' = [objs EXCEPT ![i] = [enc |-> "raw", ptr |-> a,
                                                    committed |-> Zeros(size)]]
                    /\ kobj' = i
                    /\ WriterGoes(Writer("sr_dup", "SETRANGE", offset, v, i, 0, 0))
          ELSE IF ~checkStringLength(SetrangeCheckedSize(offset, Len(v)))
               THEN /\ WriterReturns(toolongerr, <<>>, 0)
                    /\ UNCHANGED <<heap, objs, kobj, boundary>>
               ELSE /\ boundary' = boundary \cup {SetrangeBuffer(o.committed, offset, v)}
                    /\ Unshares("sr_dup", "SETRANGE", offset, v)

\* oc = o->ptr; nc = sdsdup(o->ptr); nc = sdsgrowzero(...); memcpy(...):
\* the edit happens in a private duplicate
setrangeDuplicates ==
    LET a == Alloc(heap)
        oc == objs[w.o].ptr
        nc == SetrangeBuffer(Contents(heap[oc]), w.offset, w.v)
    IN /\ w.pc = "sr_dup"
       /\ heap' = [heap EXCEPT ![a] = Buffer("live", Len(nc), nc)]
       /\ WriterGoes([w EXCEPT !.pc = "publish", !.oc = oc, !.nc = a])
       /\ UNCHANGED <<objs, kobj, nwrites, boundary, waitFor, rd, freedRead, rfault>>

\* appendCommand up to sdscatlen: the key is looked up; an absent key gets
\* the duplicated value as its Object (dbAdd) and the command is done; an
\* existing one is checked and unshared.
appendBegins(v) ==
    LET a == Alloc(heap)
        i == NewObj(objs)
        o == objs[kobj]
        old == heap[o.ptr]
        totlen == SizeT(old.len + Len(v))
    IN /\ w.pc = "idle"
       /\ nwrites < MaxWrites
       /\ rfault = "none"
       /\ nwrites' = nwrites + 1
       /\ UNCHANGED <<waitFor, rd, freedRead, rfault>>
       /\ IF kobj = 0
          THEN /\ boundary' = boundary \cup {v}
               /\ heap' = [heap EXCEPT ![a] = Buffer("live", Len(v), v)]
               /\ objs' = [objs EXCEPT ![i] = [enc |-> createStringObject(v).encoding,
                                               ptr |-> a, committed |-> v]]
               /\ kobj' = i
               /\ WriterGoes(Writer("done", "APPEND", 0, v, i, 0, 0))
          ELSE IF ~checkStringLength(WrapLL(totlen))
               THEN /\ WriterReturns(toolongerr, <<>>, 0)
                    /\ UNCHANGED <<heap, objs, kobj, boundary>>
               ELSE /\ boundary' = boundary \cup {o.committed \o v}
                    /\ Unshares("ap_cat", "APPEND", 0, v)

\* nc = sdscatlen(o->ptr, append->ptr, sdslen(append->ptr)), applied to the
\* Object's own buffer.  In place: the bytes are copied behind the old
\* contents (the length follows in appendSetsLength).  Moved: realloc copies
\* into a new block and frees the block o->ptr names.
appendConcatenates ==
    LET p == objs[w.o].ptr
        a == Alloc(heap)
        cat == Contents(heap[p]) \o w.v
    IN /\ w.pc = "ap_cat"
       /\ \E outcome \in SdscatlenOutcomes(w.v) :
             IF outcome = "inplace"
             THEN /\ heap' = [heap EXCEPT ![p].bytes = cat]
                  /\ WriterGoes([w EXCEPT !.pc = "ap_setlen", !.nc = p])
             ELSE /\ heap' = [heap EXCEPT ![p].st = "freed",
                                          ![a] = Buffer("live", Len(cat), cat)]
                  /\ WriterGoes([w EXCEPT !.pc = "ap_publish", !.nc = a])
       /\ UNCHANGED <<objs, kobj, nwrites, boundary, waitFor, rd, freedRead, rfault>>

\* sdssetlen at the end of an sdscatlen in place
appendSetsLength ==
    /\ w.pc = "ap_setlen"
    /\ heap' = [heap EXCEPT ![w.nc].len = Len(heap[w.nc].bytes)]
    /\ WriterGoes([w EXCEPT !.pc = "ap_publish"])
    /\ UNCHANGED <<objs, kobj, nwrites, boundary, waitFor, rd, freedRead, rfault>>

\* oc = o->ptr, read after sdscatlen
appendReadsOld ==
    /\ w.pc = "ap_publish"
    /\ WriterGoes([w EXCEPT !.pc = "publish", !.oc = objs[w.o].ptr])
    /\ UNCHANGED rcuVarsButW

\* rcu_assign_pointer(o->ptr, nc)
publish ==
    /\ w.pc = "publish"
    /\ objs' = [objs EXCEPT ![w.o].ptr = w.nc,
                            ![w.o].committed = Contents(heap[w.nc])]
    /\ WriterGoes([w EXCEPT !.pc = "sync"])
    /\ UNCHANGED <<heap, kobj, nwrites, boundary, waitFor, rd, freedRead, rfault>>

\* synchronize_rcu is called: it waits for the reader sections open now
synchronizeCalled ==
    /\ w.pc = "sync"
    /\ waitFor' = {r \in Readers : InSection(r)}
    /\ WriterGoes([w EXCEPT !.pc = "wait"])
    /\ UNCHANGED <<heap, objs, kobj, nwrites, boundary, rd, freedRead, rfault>>

\* synchronize_rcu returns
synchronizeReturns ==
    /\ w.pc = "wait"
    /\ waitFor = {}
    /\ WriterGoes([w EXCEPT !.pc = "free"])
    /\ UNCHANGED rcuVarsButW

\* sdsfree(oc).  A block that is free already is freed twice: the allocator
\* either aborts the process or goes on.
sdsfreeOld ==
    /\ w.pc = "free"
    /\ IF heap[w.oc].st = "freed"
       THEN /\ UNCHANGED heap
            /\ \E f \in {"double free", "abort: double free"} :
                  /\ rfault' = f
                  /\ WriterGoes([w EXCEPT !.pc = IF f = "double free"
                                                 THEN "ap_len" ELSE "aborted"])
       ELSE /\ heap' = [heap EXCEPT ![w.oc].st = "freed"]
            /\ UNCHANGED rfault
            /\ WriterGoes([w EXCEPT !.pc = IF w.name = "APPEND" THEN "ap_len" ELSE "done"])
    /\ UNCHANGED <<objs, kobj, nwrites, boundary, waitFor, rd, freedRead>>

\* totlen = sdslen(o->ptr) at the end of appendCommand's edit
appendReadsLength ==
    /\ w.pc = "ap_len"
    /\ rfault' = IF heap[objs[w.o].ptr].st = "freed" /\ rfault = "none"
                 THEN "use after free" ELSE rfault
    /\ WriterGoes([w EXCEPT !.pc = "done"])
    /\ UNCHANGED <<heap, objs, kobj, nwrites, boundary, waitFor, rd, freedRead>>

\* signalModifiedKey, notifyKeyspaceEvent, server.dirty++, addReplyLongLong
writerDone ==
    /\ w.pc = "done"
    /\ WriterReturns(LongLongReply(heap[objs[w.o].ptr].len),
                     <<<<IF w.name = "APPEND" THEN "append" ELSE "setrange", "k">>>>, 1)
    /\ UNCHANGED rcuVarsButW

(***************************************************************************)
(* A reader thread running GET (getGenericCommand)                         *)
(***************************************************************************)

\* threads run until the process aborts
ProcessRuns == w.pc # "aborted"

ReaderGoes(r, next) ==
    /\ ProcessRuns
    /\ rd' = [rd EXCEPT ![r] = next]
    /\ UNCHANGED <<kvVars, qVars, heap, objs, kobj, w, nwrites, boundary, rfault>>

\* rcu_read_lock()
rcuReadLock(r) ==
    /\ rd[r].pc = "idle"
    /\ rd[r].reads < MaxReads
    /\ ReaderGoes(r, [rd[r] EXCEPT !.pc = "locked"])
    /\ UNCHANGED <<waitFor, freedRead>>

\* o = lookupKeyReadOrReply(...): NULL replies nullbulk and leaves
readerLooksUp(r) ==
    /\ rd[r].pc = "locked"
    /\ ReaderGoes(r, IF kobj = 0
                     THEN [rd[r] EXCEPT !.pc = "unlock", !.o = 0, !.len = 0,
                                        !.bytes = <<>>, !.expect = <<>>]
                     ELSE [rd[r] EXCEPT !.pc = "loadptr", !.o = kobj])
    /\ UNCHANGED <<waitFor, freedRead>>

\* addReplyBulk(c, o) reads o->ptr, once
readerLoadsPointer(r) ==
    /\ rd[r].pc = "loadptr"
    /\ ReaderGoes(r, [rd[r] EXCEPT !.pc = "len", !.p = objs[rd[r].o].ptr,
                                   !.expect = objs[rd[r].o].committed])
    /\ UNCHANGED <<waitFor, freedRead>>

\* sdslen of the buffer: of a freed block, the stale length or anything else
readerReadsLength(r) ==
    LET b == heap[rd[r].p]
    IN /\ rd[r].pc = "len"
       /\ freedRead' = (freedRead \/ b.st = "freed")
       /\ \E n \in (IF b.st = "freed" THEN {b.len, Garbage} ELSE {b.len}) :
             ReaderGoes(r, [rd[r] EXCEPT !.pc = "bytes", !.len = n])
       /\ UNCHANGED waitFor

\* the bytes of the buffer are copied to the reply
readerCopiesBytes(r) ==
    LET b == heap[rd[r].p]
    IN /\ rd[r].pc = "bytes"
       /\ freedRead' = (freedRead \/ b.st = "freed")
       /\ ReaderGoes(r, [rd[r] EXCEPT !.pc = "unlock",
                                      !.bytes = SubSeq(b.bytes, 1, rd[r].len)])
       /\ UNCHANGED waitFor

\* rcu_read_unlock()
rcuReadUnlock(r) ==
    /\ rd[r].pc = "unlock"
    /\ waitFor' = waitFor \ {r}
    /\ ReaderGoes(r, [rd[r] EXCEPT !.pc = "idle", !.reads = @ + 1])
    /\ UNCHANGED freedRead

\* byte values and offsets of the commands run beside readers
RcuSetrangeArgs == {<<0, <<"a">>>>, <<1, <<"a">>>>}
RcuAppendArgs == {<<>>, <<"b">>}

WriterStep ==
    \/ \E a \in RcuSetrangeArgs : setrangeBegins(a[1], a[2])
    \/ setrangeDuplicates
    \/ \E v \in RcuAppendArgs : appendBegins(v)
    \/ appendConcatenates
    \/ appendSetsLength
    \/ appendReadsOld
    \/ publish
    \/ synchronizeCalled
    \/ synchronizeReturns
    \/ sdsfreeOld
    \/ appendReadsLength
    \/ writerDone

ReaderStep(r) ==
    \/ rcuReadLock(r)
    \/ readerLooksUp(r)
    \/ readerLoadsPointer(r)
    \/ readerReadsLength(r)
    \/ readerCopiesBytes(r)
    \/ rcuReadUnlock(r)

RcuNext == WriterStep \/ \E r \in Readers : ReaderStep(r)

(***************************************************************************)
(* The worker-thread descriptor (src/q_thread.c): the owner's calls on one *)
(* descriptor, and the threads launched from it, statement by statement.   *)
(***************************************************************************)

\* the number of q_thread calls the owner makes, and of threads it launches
MaxCalls == 4
MaxThreads == 2

\* the cores of the machine
NCpus == 2
Cpus == 0..(NCpus - 1)

\* entry functions and opaque arguments the owner configures
Funs == {"f", "g"}
Datas == {"d", "e"}
NoFun == "NULL"
NoData == "NULL"

\* cpu_id before the first start: q_thread_init does not write it
Uninit == 0 - 1

\* a field q_thread_run has not read yet
Unread == "unread"

\* the descriptor arguments of a call: the descriptor, or a null pointer
Descriptors == {"thread", "NULL"}

QThread(id, thread_id, cpu_id, fun_run, data) ==
    [id |-> id, thread_id |-> thread_id, cpu_id |-> cpu_id,
     fun_run |-> fun_run, data |-> data]

\* what the entry function f returns when called with d
Result(f, d) == <<f, d>>
NoResult == <<>>

\* an OS thread created by pthread_create(..., q_thread_run, thread): its
\* place in q_thread_run, its locals, what it has done, and (start*) the
\* descriptor as the start call that launched it found it
NewThread(cpu_id, fun_run, data) ==
    [pc |-> "run", cpu_id |-> Uninit, seeded |-> FALSE, pins |-> 0,
     affinity |-> Cpus, fun |-> Unread, arg |-> Unread, calls |-> 0,
     exit |-> NoResult,
     startCpu |-> cpu_id, startFun |-> fun_run, startData |-> data]

QRet(call, thread, cpu_id, fun_run, code, launched) ==
    [call |-> call, thread |-> thread, cpu_id |-> cpu_id, fun_run |-> fun_run,
     code |-> code, launched |-> launched]

QInit ==
    /\ qd = QThread(0, 0, Uninit, NoFun, NoData)
    /\ qthreads = <<>>
    /\ qret = QRet("none", "thread", 0, NoFun, "none", 0)
    /\ qcalls = 0
    /\ qfault = "none"

\* the owner makes calls while the process runs (and the bound allows)
QRunning == qfault = "none" /\ qcalls < MaxCalls

QReturn(call, t, cpu_id, d, ths, code, launched, f) ==
    /\ qd' = d
    /\ qthreads' = ths
    /\ qret' = QRet(call, t, cpu_id, qd.fun_run, code, launched)
    /\ qcalls' = qcalls + 1
    /\ qfault' = f
    /\ UNCHANGED <<kvVars, rcuVars>>

q_thread_init(t) ==
    /\ QRunning
    /\ IF t = "NULL"
       THEN QReturn("q_thread_init", t, 0, qd, qthreads, "C_ERR", 0, qfault)
       ELSE QReturn("q_thread_init", t, 0,
                    QThread(0, 0, qd.cpu_id, NoFun, NoData),
                    qthreads, "C_OK", 0, qfault)

q_thread_deinit(t) ==
    /\ QRunning
    /\ IF t = "NULL"
       THEN QReturn("q_thread_deinit", t, 0, qd, qthreads, "none", 0, qfault)
       ELSE QReturn("q_thread_deinit", t, 0,
                    QThread(0, 0, qd.cpu_id, NoFun, NoData),
                    qthreads, "none", 0, qfault)

\* the owner sets the entry function and its argument
configure(f, d) ==
    /\ QRunning
    /\ QReturn("configure", "thread", 0, [qd EXCEPT !.fun_run = f, !.data = d],
               qthreads, "none", 0, qfault)

\* pthread_create, whose result q_thread_start does not look at: the thread
\* is created, or the system has no resources for it
PthreadCreateOutcomes == {"created", "EAGAIN"}

\* q_thread_start: thread->cpu_id is written first, through the pointer the
\* test that follows compares with NULL
q_thread_start(t, cpu_id) ==
    /\ QRunning
    /\ Len(qthreads) < MaxThreads
    /\ IF t = "NULL"
       THEN QReturn("q_thread_start", t, cpu_id, qd, qthreads, "none", 0,
                    "null dereference")
       ELSE IF qd.fun_run = NoFun
       THEN QReturn("q_thread_start", t, cpu_id, [qd EXCEPT !.cpu_id = cpu_id],
                    qthreads, "C_ERR", 0, qfault)
       ELSE \E outcome \in PthreadCreateOutcomes :
               IF outcome = "created"
               THEN QReturn("q_thread_start", t, cpu_id,
                            [qd EXCEPT !.cpu_id = cpu_id,
                                       !.thread_id = Len(qthreads) + 1],
                            Append(qthreads, NewThread(cpu_id, qd.fun_run, qd.data)),
                            "C_OK", 1, qfault)
               ELSE QReturn("q_thread_start", t, cpu_id,
                            [qd EXCEPT !.cpu_id = cpu_id],
                            qthreads, "C_OK", 0, qfault)

\* thread i has been created
Launched(i) == i <= Len(qthreads)

\* a step of thread i inside q_thread_run
ThreadGoes(i, next, f) ==
    /\ qfault = "none"
    /\ qthreads' = [qthreads EXCEPT ![i] = next]
    /\ qfault' = f
    /\ UNCHANGED <<qd, qret, qcalls, kvVars, rcuVars>>

\* int cpu_id = thread->cpu_id
threadReadsCpu(i) ==
    /\ Launched(i)
    /\ qthreads[i].pc = "run"
    /\ ThreadGoes(i, [qthreads[i] EXCEPT !.pc = "srand", !.cpu_id = qd.cpu_id], qfault)

\* srand(ustime() ^ (int) pthread_self())
threadSeeds(i) ==
    /\ Launched(i)
    /\ qthreads[i].pc = "srand"
    /\ ThreadGoes(i, [qthreads[i] EXCEPT !.pc = "affinity", !.seeded = TRUE], qfault)

\* CPU_ZERO, CPU_SET(cpu_id), pthread_setaffinity_np
threadPins(i) ==
    /\ Launched(i)
    /\ qthreads[i].pc = "affinity"
    /\ ThreadGoes(i, [qthreads[i] EXCEPT !.pc = "call", !.pins = @ + 1,
                                         !.affinity = {qthreads[i].cpu_id}], qfault)

\* thread->fun_run(thread->data): the two fields are read, in either order
threadLoadsFun(i) ==
    /\ Launched(i)
    /\ qthreads[i].pc = "call"
    /\ qthreads[i].fun = Unread
    /\ ThreadGoes(i, [qthreads[i] EXCEPT !.fun = qd.fun_run], qfault)

threadLoadsData(i) ==
    /\ Launched(i)
    /\ qthreads[i].pc = "call"
    /\ qthreads[i].arg = Unread
    /\ ThreadGoes(i, [qthreads[i] EXCEPT !.arg = qd.data], qfault)

\* the call itself: through a null function pointer the process crashes
threadCalls(i) ==
    /\ Launched(i)
    /\ qthreads[i].pc = "call"
    /\ qthreads[i].fun # Unread
    /\ qthreads[i].arg # Unread
    /\ IF qthreads[i].fun = NoFun
       THEN ThreadGoes(i, [qthreads[i] EXCEPT !.pc = "crashed"],
                       "call of a null function pointer")
       ELSE ThreadGoes(i, [qthreads[i] EXCEPT !.pc = "running", !.calls = @ + 1],
                       qfault)

\* the entry function returns, and q_thread_run returns its result
threadReturns(i) ==
    /\ Launched(i)
    /\ qthreads[i].pc = "running"
    /\ ThreadGoes(i, [qthreads[i] EXCEPT !.pc = "exited",
                         !.exit = Result(qthreads[i].fun, qthreads[i].arg)], qfault)

q_thread_run(i) ==
    \/ threadReadsCpu(i)
    \/ threadSeeds(i)
    \/ threadPins(i)
    \/ threadLoadsFun(i)
    \/ threadLoadsData(i)
    \/ threadCalls(i)
    \/ threadReturns(i)

QNext ==
    \/ \E t \in Descriptors : q_thread_init(t)
    \/ \E t \in Descriptors : q_thread_deinit(t)
    \/ \E f \in Funs, d \in Datas : configure(f, d)
    \/ \E t \in Descriptors, cpu_id \in Cpus : q_thread_start(t, cpu_id)
    \/ \E i \in 1..MaxThreads : q_thread_run(i)

(***************************************************************************)
(* The writer thread: one command after another                            *)
(***************************************************************************)

NoCommand == Command("none", "a", <<>>)

KvInit ==
    /\ db = [k \in Keys |-> NULL]
    /\ expires = [k \in Keys |-> NoExpire]
    /\ dirty = 0
    /\ reply = NoReply
    /\ notes = <<>>
    /\ cmd = NoCommand
    /\ pre = [db |-> db, expires |-> expires, dirty |-> dirty]
    /\ fault = "none"
    /\ ncmds = 0
    /\ trace = <<>>
    /\ refs = <<>>

\* argument values: empty, a letter, and the decimal string of LLONG_MAX
MaxString == ll2string(LLONG_MAX)
MinString == ll2string(LLONG_MIN)
Vals == {<<>>, <<"a">>, MaxString}

nx == <<"n", "x">>
xx == <<"X", "X">>
ex == <<"e", "x">>
px == <<"P", "x">>
SetOpts ==
    {<<>>, <<nx>>, <<xx>>, <<ex, <<"1">>>>, <<px, <<"1">>>>, <<xx, ex, <<"1">>>>,
     <<nx, xx>>, <<ex, <<"1">>, px, <<"1">>>>, <<ex>>, <<<<"a">>>>,
     <<ex, <<"0">>>>, <<px, <<"-", "1">>>>, <<ex, <<"a">>>>}

\* <<key, value, options>> of SET
SetArgs ==
    {<<k, <<"a">>, o>> : k \in Keys, o \in SetOpts}
    \cup {<<k, v, <<>>>> : k \in Keys, v \in Vals}

ExpireArgs == {<<"1">>, <<"0">>, <<"a">>}

\* offsets: inside the limit, at it, LONG_MAX, negative, no number
OffsetArgs ==
    {<<"0">>, <<"1">>, <<"2">>, ll2string(StringLimit), ll2string(LONG_MAX),
     <<"-", "1">>, <<"a">>}

\* <<key, offset, value>> of SETRANGE
SetrangeArgs ==
    {<<"a", off, v>> : off \in OffsetArgs, v \in Vals}
    \cup {<<"b", <<"1">>, v>> : v \in Vals}

IndexArgs == {<<"0">>, <<"a">>}

\* argv[1..] of MSET and MSETNX: one pair, two pairs (the same key twice
\* included), and odd argument counts
MsetVals == {<<"a">>, MaxString}
MsetArgs ==
    {<<k, v>> : k \in Keys, v \in MsetVals}
    \cup {<<k1, v1, k2, <<"a">>>> : k1 \in Keys, v1 \in MsetVals, k2 \in Keys}
    \cup {<<"a">>, <<"a", <<"a">>, "b">>}

IncrArgs == {<<"1">>, <<"-", "1">>, MinString, <<"a">>}

FloatArgs == {<<"1">>, <<"a">>, InfString}

Next ==
    \/ \E a \in SetArgs : setCommand(a[1], a[2], a[3])
    \/ \E k \in Keys, v \in {<<>>, <<"a">>} : setnxCommand(k, v)
    \/ \E t \in ExpireArgs : setexCommand("a", t, <<"a">>)
    \/ \E t \in ExpireArgs : psetexCommand("a", t, MaxString)
    \/ \E k \in Keys : getCommand(k)
    \/ \E k \in Keys, v \in {<<>>, <<"a">>} : getsetCommand(k, v)
    \/ \E a \in SetrangeArgs : setrangeCommand(a[1], a[2], a[3])
    \/ \E s \in IndexArgs, e \in IndexArgs : getrangeCommand("a", s, e)
    \/ \E k \in Keys : mgetCommand(<<k, "a">>)
    \/ \E kvs \in MsetArgs : msetCommand(kvs)
    \/ \E kvs \in MsetArgs : msetnxCommand(kvs)
    \/ \E k \in Keys : incrCommand(k)
    \/ \E k \in Keys : decrCommand(k)
    \/ \E a \in IncrArgs : incrbyCommand("a", a)
    \/ \E a \in IncrArgs : decrbyCommand("a", a)
    \/ \E a \in FloatArgs : incrbyfloatCommand("a", a)
    \/ \E k \in Keys, v \in Vals : appendCommand(k, v)
    \/ \E k \in Keys : strlenCommand(k)
    \/ \E k \in Keys : listKeyCreated(k)

Init == KvInit /\ RcuInit /\ QInit

Spec == Init /\ [][Next]_vars

\* APPEND and SETRANGE beside readers
SpecRCU == Init /\ [][RcuNext]_vars

\* the owner of the worker-thread descriptor and the threads it launches
SpecThread == Init /\ [][QNext]_vars

\* the same under fair scheduling: a thread that can take a step does
SpecRCUFair ==
    /\ SpecRCU
    /\ WF_vars(WriterStep)
    /\ \A r \in Readers : WF_vars(ReaderStep(r))

(***************************************************************************)
(* INCR/DECR/INCRBY/DECRBY over the whole signed range: the key is given   *)
(* any value (by SET as a string, by INCRBY on the absent key as an        *)
(* integer), then one command of the family runs with any argument.        *)
(***************************************************************************)

IncrStrings == {ll2string(v) : v \in LLRange}

IncrNext ==
    \/ ncmds = 0 /\ \E v \in {MinString, <<"0">>, MaxString} : setCommand("a", v, <<>>)
    \/ \E a \in IncrStrings : incrbyCommand("a", a)
    \/ \E a \in IncrStrings : decrbyCommand("a", a)
    \/ incrCommand("a")
    \/ decrCommand("a")

SpecIncr == Init /\ [][IncrNext]_vars

(***************************************************************************)
(* GETRANGE over every pair of indexes around a stored string: the key is  *)
(* given a string (or an integer, by INCRBY), then GETRANGE runs once.     *)
(***************************************************************************)

\* the prefixes of a string of distinct bytes, up to the length limit
RECURSIVE Letters(_)
Letters(n) ==
    IF n = 0 THEN <<>>
    ELSE Letters(n - 1) \o <<<<"p", "q", "r", "s", "t", "u", "v", "w">>[n]>>

RangeStrings == {Letters(n) : n \in 0..StringLimit}

\* indexes from below -len to above len, and the ends of the long long range
RangeIndexes ==
    (-(StringLimit + 1)..(StringLimit + 1)) \cup {LLONG_MIN, LLONG_MAX}

RangeNext ==
    \/ ncmds = 0 /\ \E v \in RangeStrings : setCommand("a", v, <<>>)
    \/ ncmds = 0 /\ incrbyCommand("a", MinString)
    \/ /\ cmd.name # "GETRANGE"
       /\ \E s \in RangeIndexes, e \in RangeIndexes :
             getrangeCommand("a", ll2string(s), ll2string(e))

SpecRange == Init /\ [][RangeNext]_vars

(***************************************************************************)
(* Properties of the command handlers.  cmd and pre hold the last command  *)
(* and the keyspace it found; db, expires, dirty, reply and notes are what *)
(* it left.                                                                *)
(***************************************************************************)

Unchanged == db = pre.db /\ expires = pre.expires /\ dirty = pre.dirty

\* the bytes of the string k held before the last command (empty if absent)
OldString(k) == IF pre.db[k] = NULL THEN <<>> ELSE StringOf(pre.db[k])

AbsentOrString(k) == pre.db[k] = NULL \/ pre.db[k].type = "string"

\* C4: a command that replies with an error leaves the key -> Object map, the
\* expiration map and the dirty counter as it found them and emits no
\* notification.
C4_ErrorChangesNothing ==
    reply \in Errors => Unchanged /\ notes = <<>>

\* an error reported by a command that found a keyspace already written to:
\* INCR on a key that holds LLONG_MAX
C4_Witness ==
    /\ cmd.name = "INCR"
    /\ reply = overflowerr
    /\ pre.dirty > 0
    /\ pre.db[cmd.key] # NULL

\* the keys MSETNX lists, and the value of the last pair that lists key k
MsetnxKeys(kvs) == {kvs[2 * j - 1] : j \in 1..NPairs(kvs)}
LastValueFor(kvs, k) ==
    LET j == CHOOSE i \in 1..NPairs(kvs) :
                 /\ kvs[2 * i - 1] = k
                 /\ \A m \in (i + 1)..NPairs(kvs) : kvs[2 * m - 1] # k
    IN kvs[2 * j]

\* C5: MSETNX with a well-formed argument list: if one of the listed keys
\* exists, nothing is written, the dirty counter is unchanged and the reply
\* is 0; if none exists, the reply is 1 and every listed key holds its value
\* (the value of the last pair naming it, when a key is listed twice).
C5_MsetnxAllOrNothing ==
    cmd.name = "MSETNX" /\ Len(cmd.args[1]) % 2 = 0 =>
        LET kvs == cmd.args[1]
        IN IF \E k \in MsetnxKeys(kvs) : pre.db[k] # NULL
           THEN reply = czero /\ Unchanged
           ELSE /\ reply = cone
                /\ \A k \in MsetnxKeys(kvs) :
                      /\ db[k].type = "string"
                      /\ StringOf(db[k]) = LastValueFor(kvs, k)

\* MSETNX of two keys, the first absent and the second present, fails
C5_Witness ==
    /\ cmd.name = "MSETNX"
    /\ Len(cmd.args[1]) = 4
    /\ pre.db[cmd.args[1][1]] = NULL
    /\ pre.db[cmd.args[1][3]] # NULL
    /\ reply = czero

IncrFamily == {"INCR", "DECR", "INCRBY", "DECRBY"}

\* the mathematical increment the last command of the family asks for
AskedIncrement ==
    IF cmd.name = "INCR" THEN 1
    ELSE IF cmd.name = "DECR" THEN -1
    ELSE IF cmd.name = "INCRBY" THEN DecimalValue(cmd.args[1])
    ELSE -DecimalValue(cmd.args[1])

\* the command is one of the family, its argument is a long long and the key
\* is absent or holds a long long
IncrApplies ==
    /\ cmd.name \in IncrFamily
    /\ cmd.name \in {"INCRBY", "DECRBY"} => ArgIsLongLong(cmd.args[1])
    /\ AbsentOrString(cmd.key)
    /\ ObjIsLongLong(pre.db[cmd.key])

\* C6: INCR, DECR, INCRBY and DECRBY: when the mathematical result is outside
\* the signed range the reply is the overflow error and the key is unchanged;
\* otherwise the key holds exactly the mathematical result.
C6_OverflowIsAnError ==
    IncrApplies =>
        LET r == ObjLongLong(pre.db[cmd.key]) + AskedIncrement
        IN IF r \notin LLRange
           THEN reply = overflowerr /\ db = pre.db
           ELSE /\ db[cmd.key].type = "string"
                /\ StringOf(db[cmd.key]) = ll2string(r)
                /\ reply = LongLongReply(r)

\* the length of the string SETRANGE or APPEND is asked to produce
AskedLength ==
    IF cmd.name = "APPEND"
    THEN Len(OldString(cmd.key)) + Len(cmd.args[1])
    ELSE IF Len(cmd.args[2]) = 0 THEN Len(OldString(cmd.key))
    ELSE Max(Len(OldString(cmd.key)), DecimalValue(cmd.args[1]) + Len(cmd.args[2]))

\* SETRANGE with an offset that is a long and not negative, or APPEND, on a
\* key that is absent or a string
EditApplies ==
    /\ cmd.name \in {"SETRANGE", "APPEND"}
    /\ AbsentOrString(cmd.key)
    /\ cmd.name = "SETRANGE" =>
          ArgIsLongLong(cmd.args[1]) /\ DecimalValue(cmd.args[1]) >= 0

\* C7: a SETRANGE or APPEND whose result would be longer than the limit
\* replies with the length-limit error and changes nothing.
C7_LengthLimit ==
    EditApplies /\ AskedLength > StringLimit =>
        reply = toolongerr /\ Unchanged

\* the normalized start of GETRANGE: relative to the end when negative, then
\* clamped to 0
NormalStart(i, len) == Max(0, IF i < 0 THEN len + i ELSE i)

\* the normalized end as the claim has it: relative to the end when negative,
\* then clamped to len - 1
NormalEndAbove(i, len) == Min(len - 1, IF i < 0 THEN len + i ELSE i)

\* the normalized end of the code: also clamped to 0 from below
NormalEnd(i, len) == Max(0, NormalEndAbove(i, len))

\* GETRANGE with two integer indexes on a key that holds a string
GetrangeApplies ==
    /\ cmd.name = "GETRANGE"
    /\ ArgIsLongLong(cmd.args[1])
    /\ ArgIsLongLong(cmd.args[2])
    /\ pre.db[cmd.key] # NULL
    /\ pre.db[cmd.key].type = "string"

RangeBytes(str, s, e) ==
    IF s > e \/ Len(str) = 0 THEN emptybulk ELSE BulkReply(SubSeq(str, s + 1, e + 1))

\* C8 as stated: the reply is the bytes from the start (clamped to 0) to the
\* end (clamped to len - 1) inclusive, empty when start > end or the string is
\* empty.
C8_AsStated ==
    GetrangeApplies =>
        LET str == OldString(cmd.key)
        IN reply = RangeBytes(str,
                              NormalStart(DecimalValue(cmd.args[1]), Len(str)),
                              NormalEndAbove(DecimalValue(cmd.args[2]), Len(str)))

\* C8, amended: an end that is still negative after the adjustment clamps to
\* 0 (start is clamped from below only), and the reply is also empty when both
\* indexes are negative as given with start > end.
C8_GetrangeNormalization ==
    GetrangeApplies =>
        LET str == OldString(cmd.key)
            start == DecimalValue(cmd.args[1])
            end == DecimalValue(cmd.args[2])
        IN reply = IF start < 0 /\ end < 0 /\ start > end THEN emptybulk
                   ELSE RangeBytes(str, NormalStart(start, Len(str)),
                                   NormalEnd(end, Len(str)))

\* GETRANGE k -2 -1 on a string of three bytes or more returns its last two
C8_Witness ==
    /\ GetrangeApplies
    /\ DecimalValue(cmd.args[1]) = -2
    /\ DecimalValue(cmd.args[2]) = -1
    /\ Len(OldString(cmd.key)) >= 3
    /\ reply.n = 2

\* SETRANGE (with a valid offset) or APPEND, with an empty value, on an
\* absent key
EmptyEditOfAbsentKey ==
    /\ EditApplies
    /\ pre.db[cmd.key] = NULL
    /\ Len(cmd.args[IF cmd.name = "APPEND" THEN 1 ELSE 2]) = 0

\* C9 as stated: SETRANGE or APPEND with an empty value on an absent key
\* replies 0, leaves the key absent and the dirty counter unchanged.
C9_AsStated ==
    EmptyEditOfAbsentKey =>
        reply = czero /\ db[cmd.key] = NULL /\ dirty = pre.dirty

\* C9, amended: SETRANGE does so; APPEND replies 0 too, but creates the key
\* with the empty string and counts one write.
C9_EmptyEditOfAbsentKey ==
    EmptyEditOfAbsentKey =>
        /\ reply = czero
        /\ cmd.name = "SETRANGE" => db[cmd.key] = NULL /\ dirty = pre.dirty
        /\ cmd.name = "APPEND" =>
              /\ db[cmd.key].type = "string"
              /\ StringOf(db[cmd.key]) = <<>>
              /\ dirty = pre.dirty + 1

\* APPEND of the empty string to an absent key, with another key present:
\* the key now exists
C9_Witness ==
    /\ EmptyEditOfAbsentKey
    /\ cmd.name = "APPEND"
    /\ pre.dirty > 0
    /\ reply = czero
    /\ db[cmd.key] # NULL

\* C10: SETRANGE with a non-empty value, an offset >= 0 and a result within
\* the length limit, on a key that is absent or a string of n bytes: the key
\* holds max(n, offset + len(v)) bytes: v at [offset, offset + len(v)), the
\* old bytes elsewhere below n, zero bytes elsewhere; the reply is that
\* length.
C10_SetrangeBytes ==
    /\ EditApplies
    /\ cmd.name = "SETRANGE"
    /\ Len(cmd.args[2]) > 0
    /\ AskedLength <= StringLimit
    =>
        LET k == cmd.key
            offset == DecimalValue(cmd.args[1])
            v == cmd.args[2]
            old == OldString(k)
            new == StringOf(db[k])
        IN /\ db[k].type = "string"
           /\ Len(new) = Max(Len(old), offset + Len(v))
           /\ \A i \in 1..Len(new) :
                 new[i] = IF i > offset /\ i <= offset + Len(v) THEN v[i - offset]
                          ELSE IF i <= Len(old) THEN old[i]
                          ELSE NUL
           /\ reply = LongLongReply(Len(new))

\* SETRANGE past the end of an existing non-empty string: old bytes, a gap
\* of zero bytes and the value
C10_Witness ==
    /\ cmd.name = "SETRANGE"
    /\ reply.kind = "int"
    /\ pre.db[cmd.key] # NULL
    /\ Len(OldString(cmd.key)) > 0
    /\ Len(cmd.args[2]) > 0
    /\ DecimalValue(cmd.args[1]) > Len(OldString(cmd.key))


(***************************************************************************)
(* APPEND and SETRANGE beside readers (SpecRCU, SpecRCUFair)               *)
(***************************************************************************)

\* a reader is about to read, or is reading, the buffer it loaded
Dereferencing(r) == rd[r].pc \in {"len", "bytes"}

\* a reader has its whole reply and has not yet left its section
ReadFinished(r) == rd[r].pc = "unlock" /\ rd[r].o # 0

\* C1: no reader inside its read-side critical section dereferences a buffer
\* that has been freed: while a reader that loaded a buffer's address is
\* still reading it, the buffer is not free.
C1_NoReaderUsesFreedBuffer ==
    /\ ~freedRead
    /\ \A r \in Readers : Dereferencing(r) => heap[rd[r].p].st # "freed"

\* C2: a read returns, whole, the value that was published for the Object
\* when the read loaded the Object's buffer: the old value before a publish,
\* the new one after it, with a length that matches the bytes.
C2_ReadsAreWhole ==
    \A r \in Readers :
        ReadFinished(r) => /\ rd[r].bytes = rd[r].expect
                           /\ rd[r].len = Len(rd[r].bytes)

\* C3: under fair scheduling every APPEND and SETRANGE the writer begins
\* completes.
C3_WriterCompletes == (w.pc # "idle") ~> (w.pc = "idle")

(***************************************************************************)
(* APPEND and the INCR family, command by command (Spec, SpecIncr)         *)
(***************************************************************************)

\* the last command is an APPEND to an absent key or to a string, and the
\* result is within the length limit
AppendApplies ==
    /\ cmd.name = "APPEND"
    /\ AbsentOrString(cmd.key)
    /\ Len(OldString(cmd.key)) + Len(cmd.args[1]) <= StringLimit

\* C11: APPEND k v leaves k holding the old string (empty for an absent key)
\* followed by v, in a buffer that is still allocated, and replies with the
\* length of that string; a later GET then returns the concatenation.
C11_AppendConcatenates ==
    AppendApplies =>
        /\ fault = "none"
        /\ db[cmd.key] # NULL
        /\ db[cmd.key].type = "string"
        /\ StringOf(db[cmd.key]) = OldString(cmd.key) \o cmd.args[1]
        /\ reply = LongLongReply(Len(OldString(cmd.key)) + Len(cmd.args[1]))

\* C12: INCR, DECR, INCRBY and DECRBY take an absent key as 0 and, when they
\* report no error, leave the key holding the decimal representation of
\* old value + increment and reply with that number, on the path that
\* publishes the integer into the existing Object and on the path that
\* stores a new Object alike.
C12_IncrStoresSum ==
    IncrApplies /\ reply \notin Errors =>
        LET r == ObjLongLong(pre.db[cmd.key]) + AskedIncrement
        IN /\ db[cmd.key] # NULL
           /\ db[cmd.key].type = "string"
           /\ StringOf(db[cmd.key]) = ll2string(r)
           /\ reply = LongLongReply(r)

(***************************************************************************)
(* The dirty counter and the keyspace events (Spec)                        *)
(***************************************************************************)

SetFamily == {"SET", "SETNX", "SETEX", "PSETEX", "GETSET"}
MsetFamily == {"MSET", "MSETNX"}
StringCommands ==
    SetFamily \cup MsetFamily \cup IncrFamily
        \cup {"SETRANGE", "APPEND", "INCRBYFLOAT", "GET", "GETRANGE", "MGET", "STRLEN"}

\* the last command reported a write: the reply of a successful mutation
Succeeded ==
    CASE cmd.name \in {"SET", "SETEX", "PSETEX", "MSET"} -> reply = ok
      [] cmd.name \in {"SETNX", "MSETNX"} -> reply = cone
      [] cmd.name = "GETSET" -> reply \notin Errors
      [] cmd.name = "SETRANGE" -> reply.kind = "int" /\ Len(cmd.args[2]) > 0
      [] cmd.name \in IncrFamily \cup {"APPEND"} -> reply.kind = "int"
      [] cmd.name = "INCRBYFLOAT" -> reply.kind = "bulk"
      [] OTHER -> FALSE

\* the event name of the command
EventName ==
    CASE cmd.name \in SetFamily \cup MsetFamily -> "set"
      [] cmd.name = "SETRANGE" -> "setrange"
      [] cmd.name = "APPEND" -> "append"
      [] cmd.name \in IncrFamily -> "incrby"
      [] cmd.name = "INCRBYFLOAT" -> "incrbyfloat"
      [] OTHER -> "none"

\* the logical writes of the command: its pairs for MSET/MSETNX, else one
LogicalWrites ==
    IF cmd.name \in MsetFamily THEN Len(cmd.args[1]) \div 2 ELSE 1

\* the events of the command: one per written key, and "expire" after it
\* when the key was given an expiration
ExpectedNotes ==
    IF cmd.name \in MsetFamily
    THEN [j \in 1..LogicalWrites |-> <<"set", cmd.args[1][2 * j - 1]>>]
    ELSE IF cmd.name \in SetFamily /\ expires[cmd.key] # NoExpire
    THEN <<<<"set", cmd.key>>, <<"expire", cmd.key>>>>
    ELSE <<<<EventName, cmd.key>>>>

\* C13: a successful mutation adds its number of logical writes to dirty and
\* emits the command's event for each written key, with "expire" after it
\* when an expiration is set; a command that writes nothing leaves dirty
\* unchanged and emits nothing; dirty never decreases.
C13_DirtyAndEvents ==
    /\ dirty >= pre.dirty
    /\ cmd.name \in StringCommands =>
          IF Succeeded
          THEN dirty = pre.dirty + LogicalWrites /\ notes = ExpectedNotes
          ELSE dirty = pre.dirty /\ notes = <<>>

\* MSETNX of two pairs succeeded after an earlier write
C13_Witness ==
    /\ cmd.name = "MSETNX"
    /\ Succeeded
    /\ LogicalWrites = 2
    /\ pre.dirty > 0
    /\ dirty = pre.dirty + 2
    /\ Len(notes) = 2

(***************************************************************************)
(* Publishing into an Object (Spec)                                        *)
(***************************************************************************)

\* the places of the last command's trace where it publishes into an Object
Publishes == {i \in 1..Len(trace) : trace[i].ev = "rcu_assign_pointer"}

\* C14: whenever a command publishes a new buffer or a new inline integer
\* into an Object, the Object has refcount 1 at that moment, and for APPEND
\* and SETRANGE the raw encoding; an Object with more owners is replaced in
\* the keyspace, never published into.
C14_NoSharedObjectEdited ==
    \A i \in Publishes :
        /\ trace[i].refcount = 1
        /\ cmd.name \in {"APPEND", "SETRANGE"} => trace[i].encoding = "raw"
        /\ cmd.name \in IncrFamily => trace[i].encoding = "int"

\* a command of the INCR family published the new integer into the key's
\* own Object
C14_Witness ==
    /\ cmd.name \in IncrFamily
    /\ Publishes # {}
    /\ pre.db[cmd.key].refcount = 1
    /\ pre.db[cmd.key].encoding = "int"
    /\ db[cmd.key].ival = pre.db[cmd.key].ival + AskedIncrement

(***************************************************************************)
(* C15: start(descriptor, cpu_id) returns the error code and launches no   *)
(* thread when the descriptor is null or its entry function is unset (as   *)
(* after init or deinit); otherwise it launches exactly one thread and     *)
(* returns success.                                                        *)
(***************************************************************************)
StartMustFail == qret.thread = "NULL" \/ qret.fun_run = NoFun

C15_StartContract ==
    qret.call = "q_thread_start" =>
        IF StartMustFail
        THEN qret.code = "C_ERR" /\ qret.launched = 0
        ELSE qret.code = "C_OK" /\ qret.launched = 1

(***************************************************************************)
(* C16: a launched thread seeds its random generator, then pins itself to  *)
(* exactly the core cpu_id of its start call, and only then calls the      *)
(* configured entry function, once, with the configured argument; its exit *)
(* value is that function's result; the affinity is set once.              *)
(***************************************************************************)
ThreadInOrder(th) ==
    /\ th.pins <= 1
    /\ th.calls <= 1
    /\ th.pins = 1 => th.seeded
    /\ th.calls = 1 => th.pins = 1
    /\ th.pins = 0 => th.affinity = Cpus
    /\ th.pins = 1 => th.affinity = {th.startCpu}
    /\ th.calls = 1 => th.fun = th.startFun /\ th.arg = th.startData
    /\ th.pc = "exited" => th.calls = 1 /\ th.exit = Result(th.startFun, th.startData)
    /\ th.pc # "crashed"

C16_ThreadStepsInOrder ==
    \A i \in 1..Len(qthreads) : ThreadInOrder(qthreads[i])

(***************************************************************************)
(* C20: whatever the owner does after start has returned (deinit, or start *)
(* again with another cpu_id), the thread uses the cpu_id, the entry       *)
(* function and the argument the descriptor held at its start call, and    *)
(* never calls a null entry function.                                      *)
(***************************************************************************)
UsesStartValues(th) ==
    /\ th.pc \notin {"run"} => th.cpu_id = th.startCpu
    /\ th.fun # Unread => th.fun = th.startFun
    /\ th.arg # Unread => th.arg = th.startData

C20_ThreadUsesStartValues ==
    /\ \A i \in 1..Len(qthreads) : UsesStartValues(qthreads[i])
    /\ qfault # "call of a null function pointer"

(***************************************************************************)
(* C17: in every APPEND and SETRANGE on an existing key the edit is made   *)
(* in a duplicate of the Object's buffer, and the steps are publish,       *)
(* synchronize, free: the buffer freed is the one the Object pointed to    *)
(* before the publish, it is freed once, it is not the published buffer,   *)
(* and when the command returns the Object's buffer is live.               *)
(***************************************************************************)
\* the writer has built the edited buffer nc and has not published it yet
EditBuilt == w.pc \in {"ap_setlen", "ap_publish", "publish"}

\* the writer has published and has not freed yet
Published == w.pc \in {"sync", "wait", "free"}

C17_PublishSynchronizeFree ==
    /\ EditBuilt =>
          /\ objs[w.o].ptr # w.nc
          /\ heap[objs[w.o].ptr].st = "live"
    /\ w.pc = "publish" => w.oc = objs[w.o].ptr
    /\ Published =>
          /\ objs[w.o].ptr = w.nc
          /\ w.oc # w.nc
          /\ heap[w.oc].st = "live"
    /\ (kobj # 0 /\ w.pc \in {"ap_len", "done", "idle"}) =>
          heap[objs[kobj].ptr].st = "live"
    /\ rfault \notin {"double free", "abort: double free"}

(***************************************************************************)
(* C19: a reader that finds "k" observes a value the key held before the   *)
(* writer's command or holds when the command is complete, never a state   *)
(* in the middle of a command; SETRANGE on an absent key, which adds a     *)
(* zero-filled buffer to the keyspace before it publishes the written one, *)
(* is included.                                                            *)
(***************************************************************************)
C19_NoIntermediateState ==
    \A r \in Readers : ReadFinished(r) => rd[r].bytes \in boundary

(***************************************************************************)
(* Read-side critical sections of the read-only commands (Spec)            *)
(***************************************************************************)

ReadCommands == {"GET", "GETRANGE", "MGET", "STRLEN", "GETSET"}

Locks(i) == Cardinality({j \in 1..i : trace[j] = Lock})
Unlocks(i) == Cardinality({j \in 1..i : trace[j] = Unlock})

\* the number of read sections the command is inside after its i-th step
Depth(i) == Locks(i) - Unlocks(i)

\* the steps of the last command that look up or dereference an Object
Reads == {i \in 1..Len(trace) : trace[i] \in {Lookup, Deref}}

\* C18: every read-only command (GET, GETRANGE, MGET, STRLEN, the read of
\* GETSET) enters a read-side critical section before its lookup, makes
\* every dereference inside it, and leaves it exactly once on every return
\* path; no command returns inside a section, and lock and unlock balance.
C18_ReadSectionsBalanced ==
    /\ \A i \in 1..Len(trace) : Depth(i) \in {0, 1}
    /\ Depth(Len(trace)) = 0
    /\ cmd.name \in ReadCommands =>
          /\ Locks(Len(trace)) = 1
          /\ Unlocks(Len(trace)) = 1
          /\ \A i \in Reads : Depth(i) = 1

\* a GET of a key of another type has returned on the wrong-type path
C18_Witness ==
    /\ cmd.name = "GET"
    /\ reply = wrongtypeerr
    /\ Reads # {}
    /\ trace[Len(trace)] = Unlock

(***************************************************************************)
(* Reference counts when a command returns (Spec)                          *)
(***************************************************************************)

\* the Objects a command creates for its own use
Temporaries == {"key", "val", "aux"}

\* the last command has returned to its caller (the process did not abort)
Returned == cmd.name # "none" /\ reply # NoReply

\* r was released once if it is a temporary, and is left with the keyspace's
\* one reference if the keyspace holds it, with none otherwise
Accounted(r) ==
    /\ r.role \in Temporaries => r.released = 1
    /\ r.stored => r.refcount = 1
    /\ ~r.stored => r.refcount = 0

\* C21: after any string command returns, on every exit path, every
\* temporary Object the command created (the duplicated key and value) has
\* been released exactly once, and the Object stored in the keyspace for a
\* written key holds exactly the keyspace's one reference; no temporary is
\* leaked and none is released twice.
C21_TemporariesReleased ==
    Returned => \A i \in 1..Len(refs) : Accounted(refs[i])
====
